---- MODULE Spec2Model ----
(***************************************************************************)
(* Model of backend/src/main.py: the IFC element extraction endpoint.      *)
(*                                                                         *)
(* The IFC model is loaded once at import time and never changes.  One     *)
(* request runs get_elements: the unit lookup, one pass over the building  *)
(* elements (location, level, quantity, aggregation) and the assembly of   *)
(* the response (sorted level names, grouped summary).                     *)
(*                                                                         *)
(* Python's None is the empty tuple NONE and a present value v is the      *)
(* one-element tuple <<v>>.  A dict is the sequence of its <<key, value>>  *)
(* pairs in insertion order.  Floats are modelled by integers.             *)
(***************************************************************************)
EXTENDS Integers, Sequences, FiniteSets, TLC

VARIABLES
    model,          \* the module-level `model`: NONE or <<the loaded file>>
    pc,             \* position of the request handler: "idle" or "loop"
    i,              \* index of the next element of model.by_type("IfcBuildingElement")
    unit,           \* get_elements local `unit`
    elements,       \* get_elements local `elements`
    type_summary,   \* get_elements local `type_summary` (dict type -> count)
    type_dim,       \* get_elements local `type_dim` (dict type -> dimension)
    totals,         \* get_elements local `totals` (dict type -> dict level -> sum)
    dim,            \* get_elements local `dim` of the element processed last
    value,          \* get_elements local `value` of the element processed last
    response        \* what the last finished call produced (NONE before any call)

vars == <<model, pc, i, unit, elements, type_summary, type_dim, totals, dim, value, response>>

----------------------------------------------------------------------------
(* Bounds of the explored inputs *)

MaxElems == 2        \* building elements in the aggregation inputs
MaxStoreys == 2      \* building storeys in the level-ordering inputs
MaxEntries == 2      \* quantity entries of one element
MaxReps == 2         \* representations of one element
MaxUnits == 2        \* unit declarations of the unit assignment

----------------------------------------------------------------------------
(* Python values *)

NONE == <<>>
Some(v) == <<v>>
Val(o) == o[1]

\* Python truthiness of an optional string: neither None nor ""
TruthyStr(o) == o # NONE /\ Val(o) # ""

\* Python truthiness of an optional number: neither None nor 0
TruthyNum(o) == o # NONE /\ Val(o) # 0

\* sequences over S of length lo..hi
SeqsBetween(S, lo, hi) == UNION {[1..n -> S] : n \in lo..hi}

\* dict helpers (insertion-ordered)
HasKey(d, k) == \E n \in 1..Len(d) : d[n][1] = k
Get(d, k) == d[CHOOSE n \in 1..Len(d) : d[n][1] = k][2]
GetOr(d, k, default) == IF HasKey(d, k) THEN Get(d, k) ELSE default
Put(d, k, v) ==
    IF HasKey(d, k)
    THEN [n \in 1..Len(d) |-> IF d[n][1] = k THEN <<k, v>> ELSE d[n]]
    ELSE Append(d, <<k, v>>)
Keys(d) == {d[n][1] : n \in 1..Len(d)}

----------------------------------------------------------------------------
(* Module constants *)

IFC_FILE_PATH == "C:/base_structure.ifc"

TwoDTypes == {"Curve2D", "GeometricCurveSet", "Annotation2D"}
ThreeDTypes == {"SurfaceModel", "Brep", "AdvancedBrep", "SweptSolid", "CSG",
                "MappedRepresentation", "Tessellation"}

----------------------------------------------------------------------------
(* _get_element_location *)

\* x, y, z = placement.Location.Coordinates raises unless there are three
_get_element_location(element) ==
    IF element.ObjectPlacement # NONE
    THEN LET coords == Val(element.ObjectPlacement).Coordinates
         IN  IF Len(coords) = 3
             THEN Some([x |-> coords[1], y |-> coords[2], z |-> coords[3]])
             ELSE NONE
    ELSE NONE

(* _get_element_level: <<name, elevation>> of the containing storey *)
_get_element_level(element) ==
    LET storey == element.container
    IN  IF storey # NONE /\ Val(storey).is_a = "IfcBuildingStorey"
        THEN <<Val(storey).Name,
               IF Val(storey).Elevation # NONE THEN Val(Val(storey).Elevation) ELSE 0>>
        ELSE <<NONE, 0>>

----------------------------------------------------------------------------
(* _get_unit *)

\* f"{x}" of an attribute that is None prints "None"
FormatAttr(o) == IF o = NONE THEN "None" ELSE Val(o)

RECURSIVE FirstLengthUnit(_, _)
FirstLengthUnit(units, n) ==
    IF n > Len(units) THEN NONE
    ELSE IF units[n].UnitType = Some("LENGTHUNIT")
         THEN Some((IF TruthyStr(units[n].Prefix) THEN Val(units[n].Prefix) ELSE "")
                   \o FormatAttr(units[n].Name))
         ELSE FirstLengthUnit(units, n + 1)

\* m.unitAssignments is model.by_type("IfcUnitAssignment"); [0] raises on an
\* empty list and the exception is swallowed
_get_unit(m) ==
    IF Len(m.unitAssignments) = 0 THEN NONE
    ELSE FirstLengthUnit(m.unitAssignments[1].Units, 1)

\* str.upper() on the unit names that occur
upper(s) ==
    CASE s = "foot" -> "FOOT"
      [] s = "None" -> "NONE"
      [] s = "MILLINone" -> "MILLINONE"
      [] s = "MILLIfoot" -> "MILLIFOOT"
      [] s = "METRE" -> "METRE"
      [] s = "MILLIMETRE" -> "MILLIMETRE"
      [] s = "MILLI" -> "MILLI"
      [] s = "" -> ""

DigitStr(d) == CASE d = 1 -> "1" [] d = 2 -> "2" [] d = 3 -> "3"

\* variant: the fallback name is applied to an unknown unit as well
UnitWithDimFallback(u, d) ==
    Some((IF TruthyStr(u) THEN upper(Val(u)) ELSE "METER") \o "^" \o DigitStr(d))

\* f"{(unit or 'METER').upper()}^{dim}" if unit else None
UnitWithDim(u, d) ==
    IF TruthyStr(u)
    THEN Some(upper(IF TruthyStr(u) THEN Val(u) ELSE "METER") \o "^" \o DigitStr(d))
    ELSE NONE

----------------------------------------------------------------------------
(* _get_element_quantity *)

\* float(x) raises on None
FloatRaises(o) == o = NONE

\* variant: the most specific readable entry of the set wins
ScanQuantitiesMostSpecific(qs, j) ==
    LET readable(kind, field) ==
            {n \in j..Len(qs) : qs[n].is_a = kind /\ qs[n][field] # NONE}
        first(S) == CHOOSE n \in S : \A m \in S : n <= m
        vols == readable("IfcQuantityVolume", "VolumeValue")
        areas == readable("IfcQuantityArea", "AreaValue")
        lens == readable("IfcQuantityLength", "LengthValue")
    IN  IF vols # {} THEN Some(<<3, Some(Val(qs[first(vols)].VolumeValue))>>)
        ELSE IF areas # {} THEN Some(<<2, Some(Val(qs[first(areas)].AreaValue))>>)
        ELSE IF lens # {} THEN Some(<<1, Some(Val(qs[first(lens)].LengthValue))>>)
        ELSE NONE

\* variant: a failing entry ends the scan of the set
RECURSIVE ScanQuantitiesAbort(_, _)
ScanQuantitiesAbort(qs, j) ==
    IF j > Len(qs) THEN NONE
    ELSE LET q == qs[j]
         IN  IF q.is_a = "IfcQuantityVolume"
             THEN IF FloatRaises(q.VolumeValue) THEN NONE
                  ELSE Some(<<3, Some(Val(q.VolumeValue))>>)
             ELSE IF q.is_a = "IfcQuantityArea"
             THEN IF FloatRaises(q.AreaValue) THEN NONE
                  ELSE Some(<<2, Some(Val(q.AreaValue))>>)
             ELSE IF q.is_a = "IfcQuantityLength"
             THEN IF FloatRaises(q.LengthValue) THEN NONE
                  ELSE Some(<<1, Some(Val(q.LengthValue))>>)
             ELSE ScanQuantitiesAbort(qs, j + 1)

\* the inner loop over rel_def.Quantities from entry j on: NONE when no
\* entry returns, else <<the returned (dim, value)>>
RECURSIVE ScanQuantities(_, _)
ScanQuantities(qs, j) ==
    IF j > Len(qs) THEN NONE
    ELSE LET q == qs[j]
         IN  IF q.is_a = "IfcQuantityVolume"
             THEN IF FloatRaises(q.VolumeValue)
                  THEN ScanQuantities(qs, j + 1)
                  ELSE Some(<<3, Some(Val(q.VolumeValue))>>)
             ELSE IF q.is_a = "IfcQuantityArea"
             THEN IF FloatRaises(q.AreaValue)
                  THEN ScanQuantities(qs, j + 1)
                  ELSE Some(<<2, Some(Val(q.AreaValue))>>)
             ELSE IF q.is_a = "IfcQuantityLength"
             THEN IF FloatRaises(q.LengthValue)
                  THEN ScanQuantities(qs, j + 1)
                  ELSE Some(<<1, Some(Val(q.LengthValue))>>)
             ELSE ScanQuantities(qs, j + 1)

\* the outer loop over element.IsDefinedBy from definition k on
RECURSIVE ScanDefinitions(_, _)
ScanDefinitions(defs, k) ==
    IF k > Len(defs) THEN NONE
    ELSE LET definition == defs[k]
         IN  IF definition.RelatingDefinition = NONE
             THEN ScanDefinitions(defs, k + 1)
             ELSE LET rel_def == Val(definition.RelatingDefinition)
                      found == IF rel_def.is_a = "IfcElementQuantity"
                                  /\ Len(rel_def.Quantities) > 0
                               THEN ScanQuantities(rel_def.Quantities, 1)
                               ELSE NONE
                  IN  IF found # NONE THEN found
                      ELSE ScanDefinitions(defs, k + 1)

\* variant: a 2D representation anywhere in the list wins over a 3D one
ScanRepresentationsAny2D(reps, r) ==
    LET has(S) == \E n \in r..Len(reps) :
                     /\ reps[n].RepresentationType # NONE
                     /\ Val(reps[n].RepresentationType) \in S
    IN  IF has(TwoDTypes) THEN Some(<<2, Some(1)>>)
        ELSE IF has(ThreeDTypes) THEN Some(<<3, Some(1)>>)
        ELSE NONE

\* the loop over reps from representation r on
RECURSIVE ScanRepresentations(_, _)
ScanRepresentations(reps, r) ==
    IF r > Len(reps) THEN NONE
    ELSE LET rtype == reps[r].RepresentationType
         IN  IF rtype # NONE /\ Val(rtype) \in TwoDTypes THEN Some(<<2, Some(1)>>)
             ELSE IF rtype # NONE /\ Val(rtype) \in ThreeDTypes THEN Some(<<3, Some(1)>>)
             ELSE ScanRepresentations(reps, r + 1)

\* variant: the fallback returns the initial value None
_get_element_quantity_NoPlaceholder(element) ==
    LET byQuantity == ScanDefinitions(element.IsDefinedBy, 1)
        reps == IF element.Representation # NONE
                THEN Val(element.Representation).Representations
                ELSE <<>>
        byGeometry == ScanRepresentations(reps, 1)
    IN  IF byQuantity # NONE THEN Val(byQuantity)
        ELSE IF byGeometry # NONE THEN Val(byGeometry)
        ELSE <<1, NONE>>

_get_element_quantity(element) ==
    LET byQuantity == ScanDefinitions(element.IsDefinedBy, 1)
        reps == IF element.Representation # NONE
                THEN Val(element.Representation).Representations
                ELSE <<>>
        byGeometry == ScanRepresentations(reps, 1)
    IN  IF byQuantity # NONE THEN Val(byQuantity)
        ELSE IF byGeometry # NONE THEN Val(byGeometry)
        ELSE <<1, Some(1)>>

----------------------------------------------------------------------------
(* get_elements: the pieces of the loop body and of the assembly *)

\* variant: the count is assigned, not incremented
CountTypeAssign(summary, elem_type) == Put(summary, elem_type, 1)

\* type_summary[elem_type] += 1 on a defaultdict(int)
CountType(summary, elem_type) == Put(summary, elem_type, GetOr(summary, elem_type, 0) + 1)

\* variant: the last element of a type sets its dimension
CacheDimLastWins(cache, elem_type, d) == Put(cache, elem_type, d)

\* if elem_type not in type_dim: type_dim[elem_type] = dim
CacheDim(cache, elem_type, d) ==
    IF HasKey(cache, elem_type) THEN cache ELSE Put(cache, elem_type, d)

\* if value is not None and level_name
ShouldAggregate(v, level_name) == v # NONE /\ TruthyStr(level_name)

\* variant: the total is assigned, not added to
AddTotalAssign(tot, elem_type, level_name, v) ==
    Put(tot, elem_type, Put(GetOr(tot, elem_type, <<>>), level_name, v))

\* totals[elem_type][level_name] += value on nested defaultdicts
AddTotal(tot, elem_type, level_name, v) ==
    LET inner == GetOr(tot, elem_type, <<>>)
    IN  Put(tot, elem_type, Put(inner, level_name, GetOr(inner, level_name, 0) + v))

\* the record appended to `elements` for one element
ElementData(element, u, d, v) ==
    LET loc == _get_element_location(element)
        lvl == _get_element_level(element)
        level_elevation == lvl[2]
    IN  [x |-> IF loc # NONE THEN Some(Val(loc).x) ELSE NONE,
         y |-> IF loc # NONE THEN Some(Val(loc).y) ELSE NONE,
         z_relative_to_level |-> IF loc # NONE THEN Some(Val(loc).z) ELSE NONE,
         real_world_z |-> IF loc # NONE THEN Some(level_elevation + Val(loc).z) ELSE NONE,
         level_name |-> lvl[1],
         level_elevation |-> level_elevation,
         type |-> element.type,
         unit |-> UnitWithDim(u, d),
         value |-> v]

\* lv.Elevation if lv.Elevation else 0.0
LevelKey(lv) == IF TruthyNum(lv.Elevation) THEN Val(lv.Elevation) ELSE 0

\* variant: ascending sort then reversal, which reverses the ties
InsertDescendingUnstable(sorted, pair) ==
    LET before == {n \in 1..Len(sorted) : sorted[n][2] > pair[2]}
        cut == IF before = {} THEN 0 ELSE CHOOSE n \in before : \A m \in before : m <= n
    IN  SubSeq(sorted, 1, cut) \o <<pair>> \o SubSeq(sorted, cut + 1, Len(sorted))

\* sorted(..., key=elevation, reverse=True): stable, so a pair goes behind
\* every pair whose elevation is at least its own
InsertDescending(sorted, pair) ==
    LET before == {n \in 1..Len(sorted) : sorted[n][2] >= pair[2]}
        cut == IF before = {} THEN 0 ELSE CHOOSE n \in before : \A m \in before : m <= n
    IN  SubSeq(sorted, 1, cut) \o <<pair>> \o SubSeq(sorted, cut + 1, Len(sorted))

RECURSIVE SortDescending(_, _, _)
SortDescending(pairs, n, acc) ==
    IF n > Len(pairs) THEN acc
    ELSE SortDescending(pairs, n + 1, InsertDescending(acc, pairs[n]))

levels_sorted(storeys) ==
    SortDescending([n \in 1..Len(storeys) |-> <<storeys[n].Name, LevelKey(storeys[n])>>], 1, <<>>)

level_names(storeys) ==
    LET ls == levels_sorted(storeys) IN [n \in 1..Len(ls) |-> ls[n][1]]

\* the dimension of a summary entry: type_dim.get(elem_type, 1)
SummaryDim(cache, elem_type) == GetOr(cache, elem_type, 1)

\* one entry of `summary` per item of type_summary, in insertion order
Groups(summary, cache, tot, u) ==
    [n \in 1..Len(summary) |->
        [type |-> summary[n][1],
         unit |-> UnitWithDim(u, SummaryDim(cache, summary[n][1])),
         count |-> summary[n][2],
         totals |-> GetOr(tot, summary[n][1], <<>>)]]

\* reading totals[elem_type] creates the missing keys of the defaultdict
RECURSIVE TouchTotals(_, _, _)
TouchTotals(tot, summary, n) ==
    IF n > Len(summary) THEN tot
    ELSE TouchTotals(IF HasKey(tot, summary[n][1]) THEN tot
                     ELSE Put(tot, summary[n][1], <<>>), summary, n + 1)

\* variant: the detail does not name the file
NotFoundWithoutPath == [status_code |-> 404, detail |-> "IFC file not found"]

NotFound == [status_code |-> 404, detail |-> "IFC file not found: " \o IFC_FILE_PATH]

----------------------------------------------------------------------------
(* get_elements: the steps of one request *)

\* lines 101-102: the model was not loaded
GetElementsNotFound ==
    /\ pc = "idle"
    /\ model = NONE
    /\ response' = Some(NotFound)
    /\ UNCHANGED <<model, pc, i, unit, elements, type_summary, type_dim, totals, dim, value>>

\* lines 104-108: unit lookup and the empty accumulators
GetElementsBegin ==
    /\ pc = "idle"
    /\ model # NONE
    /\ unit' = _get_unit(Val(model))
    /\ elements' = <<>>
    /\ type_summary' = <<>>
    /\ type_dim' = <<>>
    /\ totals' = <<>>
    /\ i' = 1
    /\ dim' = NONE
    /\ value' = NONE
    /\ pc' = "loop"
    /\ UNCHANGED <<model, response>>

\* lines 110-148: one iteration of the loop over the building elements
ProcessElement ==
    /\ pc = "loop"
    /\ i <= Len(Val(model).elements)
    /\ LET element == Val(model).elements[i]
           elem_type == element.type
           q == _get_element_quantity(element)
           level_name == _get_element_level(element)[1]
       IN  /\ type_summary' = CountType(type_summary, elem_type)
           /\ type_dim' = CacheDim(type_dim, elem_type, q[1])
           /\ totals' = IF ShouldAggregate(q[2], level_name)
                        THEN AddTotal(totals, elem_type, Val(level_name), Val(q[2]))
                        ELSE totals
           /\ elements' = Append(elements, ElementData(element, unit, q[1], q[2]))
           /\ dim' = Some(q[1])
           /\ value' = q[2]
    /\ i' = i + 1
    /\ UNCHANGED <<model, pc, unit, response>>

\* lines 150-175: the level names, the grouped summary and the result
BuildResponse ==
    /\ pc = "loop"
    /\ i > Len(Val(model).elements)
    /\ totals' = TouchTotals(totals, type_summary, 1)
    /\ response' = Some([status_code |-> 200,
                         body |-> [elements |-> elements,
                                   summary |-> Groups(type_summary, type_dim, totals, unit),
                                   levels |-> level_names(Val(model).storeys)]])
    /\ pc' = "idle"
    /\ UNCHANGED <<model, i, unit, elements, type_summary, type_dim, dim, value>>

Next ==
    \/ GetElementsNotFound
    \/ GetElementsBegin
    \/ ProcessElement
    \/ BuildResponse

----------------------------------------------------------------------------
(* The IFC files explored.  A file is its building elements, its building  *)
(* storeys and its unit assignments, each in enumeration order.            *)

Storey(name, elevation) ==
    [is_a |-> "IfcBuildingStorey", Name |-> name, Elevation |-> elevation]

\* a container that is no storey: its name and elevation are never read
Space == [is_a |-> "IfcSpace", Name |-> Some("S"), Elevation |-> NONE]

SIUnit(type, prefix, name) == [UnitType |-> type, Prefix |-> prefix, Name |-> name]

Millimetre == SIUnit(Some("LENGTHUNIT"), Some("MILLI"), Some("METRE"))

UnitDecls ==
    { Millimetre,
      SIUnit(Some("LENGTHUNIT"), NONE, Some("foot")),
      SIUnit(Some("LENGTHUNIT"), NONE, Some("")),
      SIUnit(Some("LENGTHUNIT"), NONE, NONE),
      SIUnit(Some("AREAUNIT"), NONE, Some("METRE")),
      SIUnit(NONE, NONE, Some("METRE")) }

UnitAssignments ==
    {<<>>} \cup {<<[Units |-> us]>> : us \in SeqsBetween(UnitDecls, 0, MaxUnits)}

Volume(v) == [is_a |-> "IfcQuantityVolume", VolumeValue |-> v]
Area(v) == [is_a |-> "IfcQuantityArea", AreaValue |-> v]
Length(v) == [is_a |-> "IfcQuantityLength", LengthValue |-> v]
Count(v) == [is_a |-> "IfcQuantityCount", CountValue |-> v]

\* each kind with a value of its own, and with a value float() rejects
QEntries ==
    { Volume(Some(5)), Volume(NONE), Area(Some(4)), Area(NONE),
      Length(Some(3)), Length(NONE), Count(Some(7)) }

ElementQuantity(qs) ==
    [RelatingDefinition |-> Some([is_a |-> "IfcElementQuantity", Quantities |-> qs])]
PropertySet ==
    [RelatingDefinition |-> Some([is_a |-> "IfcPropertySet", Quantities |-> <<>>])]
\* a relation without RelatingDefinition (IfcRelDefinesByType): the access raises
ByType == [RelatingDefinition |-> NONE]

\* the ways the entries qs are spread over the definitions of an element
Layouts(qs) ==
    { <<ElementQuantity(qs)>>,
      <<ByType, ElementQuantity(qs)>>,
      <<PropertySet, ElementQuantity(qs)>>,
      <<ElementQuantity(qs), PropertySet>> }
    \cup (IF Len(qs) = 0 THEN {<<>>} ELSE {})
    \cup {<<ElementQuantity(SubSeq(qs, 1, n)), ElementQuantity(SubSeq(qs, n + 1, Len(qs)))>> :
             n \in 0..Len(qs)}

IsDefinedByChoices ==
    UNION {Layouts(qs) : qs \in SeqsBetween(QEntries, 0, MaxEntries)}

Rep(rtype) == [RepresentationType |-> rtype]

RepTypes ==
    {Some(t) : t \in TwoDTypes \cup ThreeDTypes} \cup {Some("BoundingBox"), NONE}

RepresentationChoices ==
    {NONE} \cup {Some([Representations |-> rs]) :
                    rs \in SeqsBetween({Rep(t) : t \in RepTypes}, 0, MaxReps)}

Placements ==
    {NONE, Some([Coordinates |-> <<1, 2, 3>>]), Some([Coordinates |-> <<1, 2>>])}

Element(type, placement, container, defs, rep) ==
    [type |-> type, ObjectPlacement |-> placement, container |-> container,
     IsDefinedBy |-> defs, Representation |-> rep]

File(elems, storeys, units) ==
    [elements |-> elems, storeys |-> storeys, unitAssignments |-> units]

GroundFloor == Storey(Some("L1"), Some(0))
UpperFloor == Storey(Some("L2"), Some(3))

\* aggregation: several elements of two types on named and empty-named
\* storeys or on none, with measured and placeholder quantities
AggStoreys == <<GroundFloor, UpperFloor, Storey(Some(""), Some(6))>>

AggElements ==
    { Element(t, Some([Coordinates |-> <<1, 2, 3>>]), c, d, NONE) :
        t \in {"IfcWall", "IfcSlab"},
        c \in {NONE} \cup {Some(AggStoreys[n]) : n \in 1..Len(AggStoreys)},
        d \in { <<>>,
                <<ElementQuantity(<<Volume(Some(5))>>)>>,
                <<ElementQuantity(<<Area(Some(0))>>)>> } }

AggregationFiles ==
    { File(es, AggStoreys, <<[Units |-> <<Millimetre>>]>>) :
        es \in SeqsBetween(AggElements, 0, MaxElems) }

\* level ordering: every list of storeys, some with equal or absent elevations
LevelStoreys ==
    { Storey(n, e) : n \in {NONE, Some("A"), Some("B")},
                     e \in {NONE, Some(0), Some(3), Some(0 - 3)} }

LevelFiles ==
    { File(IF Len(ss) = 0 THEN <<>>
           ELSE <<Element("IfcWall", NONE, Some(ss[1]), <<>>, NONE)>>,
           ss, <<>>) :
        ss \in SeqsBetween(LevelStoreys, 0, MaxStoreys) }

\* quantity records: one element with every list of quantity entries
QuantityFiles ==
    { File(<<Element("IfcWall", NONE, Some(GroundFloor), d, r)>>,
           <<GroundFloor>>, <<[Units |-> <<Millimetre>>]>>) :
        d \in IsDefinedByChoices,
        r \in {NONE, Some([Representations |-> <<Rep(Some("Curve2D"))>>]),
               Some([Representations |-> <<Rep(Some("Brep"))>>])} }

\* geometry: one element with every list of representations
GeometryFiles ==
    { File(<<Element("IfcSlab", NONE, Some(GroundFloor), d, r)>>,
           <<GroundFloor>>, <<[Units |-> <<Millimetre>>]>>) :
        d \in { <<>>, <<ElementQuantity(<<Volume(NONE)>>)>>,
                <<ElementQuantity(<<Length(Some(3))>>)>> },
        r \in RepresentationChoices }

\* units and partial data: every unit assignment, with elements that lack
\* a placement, a storey or quantity records
PartialElements ==
    { Element("IfcDoor", p, c, d, NONE) :
        p \in Placements,
        c \in {NONE, Some(Space), Some(UpperFloor), Some(Storey(NONE, Some(3)))},
        d \in {<<>>, <<ElementQuantity(<<Area(Some(4))>>)>>} }

UnitFiles ==
    { File(<<e>>, <<GroundFloor, UpperFloor, Storey(NONE, Some(3))>>, us) :
        e \in PartialElements, us \in UnitAssignments }

\* lines 24-27: the file exists and is opened, or model is None
Init ==
    /\ \/ model = NONE
       \/ \E f \in AggregationFiles : model = Some(f)
       \/ \E f \in LevelFiles : model = Some(f)
       \/ \E f \in QuantityFiles : model = Some(f)
       \/ \E f \in GeometryFiles : model = Some(f)
       \/ \E f \in UnitFiles : model = Some(f)
    /\ pc = "idle"
    /\ i = 1
    /\ unit = NONE
    /\ elements = <<>>
    /\ type_summary = <<>>
    /\ type_dim = <<>>
    /\ totals = <<>>
    /\ dim = NONE
    /\ value = NONE
    /\ response = NONE

Spec == Init /\ [][Next]_vars

----------------------------------------------------------------------------
(* Properties *)

Loaded == model # NONE
Source == Val(model).elements

\* a call has returned the result structure
Returned == response # NONE /\ Val(response).status_code = 200
Body == Val(response).body

\* the element records held so far with type t that satisfy P
RecordsOf(t) == {n \in 1..Len(elements) : elements[n].type = t}

RECURSIVE SumValues(_)
SumValues(S) ==
    IF S = {} THEN 0
    ELSE LET n == CHOOSE m \in S : TRUE
         IN  Val(elements[n].value) + SumValues(S \ {n})

\* totals[t][l] as a caller of the defaultdict reads it
Total(t, l) == GetOr(GetOr(totals, t, <<>>), l, 0)

TypesSeen == {elements[n].type : n \in 1..Len(elements)}
NamesSeen == {Val(elements[n].level_name) :
                 n \in {m \in 1..Len(elements) : elements[m].level_name # NONE}}

\* the records that the claim sums into (t, l)
Contributors(t, l) ==
    {n \in RecordsOf(t) : elements[n].level_name = Some(l) /\ elements[n].value # NONE}

CountsAllRecords ==
    \A t \in TypesSeen : GetOr(type_summary, t, 0) = Cardinality(RecordsOf(t))

\* C1 as stated: for every type and every non-null level name the total is
\* the sum of the values of the elements of that type and level with a
\* non-null value, and every element is counted.
C1_TotalsSumNonNullLevels ==
    /\ \A t \in TypesSeen : \A l \in NamesSeen :
          Total(t, l) = SumValues(Contributors(t, l))
    /\ CountsAllRecords

\* C1 amended: the same for every level name that is neither null nor
\* empty; an element whose level name is null or empty, or whose value is
\* null, changes no total (no key is created for it) and is still counted.
C1_TotalsSumNonEmptyLevels ==
    /\ \A t \in TypesSeen : \A l \in NamesSeen \ {""} :
          Total(t, l) = SumValues(Contributors(t, l))
    /\ \A t \in Keys(totals) : \A l \in Keys(Get(totals, t)) :
          l # "" /\ Contributors(t, l) # {}
    /\ CountsAllRecords

\* two elements of one type on one named level are summed, next to a state
\* where an element on a storey with an empty name is only counted
C1_Witness ==
    /\ pc = "loop"
    /\ \E a, b \in 1..Len(elements) :
          /\ a < b
          /\ elements[a].type = elements[b].type
          /\ elements[a].level_name = Some("L1")
          /\ elements[b].level_name = Some("L1")
          /\ Val(elements[a].value) > 0
          /\ Val(elements[b].value) > 0
          /\ Total(elements[a].type, "L1")
               = Val(elements[a].value) + Val(elements[b].value)

\* the dimension _get_element_quantity gives the first element of type t
FirstOfType(t) ==
    CHOOSE n \in 1..Len(Source) :
        Source[n].type = t /\ \A m \in 1..(n - 1) : Source[m].type # t
FirstDim(t) == _get_element_quantity(Source[FirstOfType(t)])[1]

\* C2: the dimension cached for a type, and used in the unit string of its
\* summary entry, is the one of the first element of that type, whatever
\* the later elements of the type yield.
C2_FirstElementFixesDimension ==
    /\ \A t \in Keys(type_dim) : Get(type_dim, t) = FirstDim(t)
    /\ Returned =>
          \A n \in 1..Len(Body.summary) :
              Body.summary[n].unit
                = UnitWithDim(_get_unit(Val(model)), FirstDim(Body.summary[n].type))

\* a later element of the type came with another dimension and the cached
\* one is still the first
C2_Witness ==
    /\ pc = "loop"
    /\ i = 3
    /\ Source[1].type = Source[2].type
    /\ dim # Some(FirstDim(Source[1].type))
    /\ Get(type_dim, Source[1].type) = FirstDim(Source[1].type)

\* the element whose dimension and value the locals hold
Processed == Loaded /\ i > 1
Current == Source[i - 1]

\* the entries of the element-quantity sets of an element, in scan order
RECURSIVE EntriesFrom(_, _)
EntriesFrom(defs, k) ==
    IF k > Len(defs) THEN <<>>
    ELSE (IF defs[k].RelatingDefinition # NONE
             /\ Val(defs[k].RelatingDefinition).is_a = "IfcElementQuantity"
          THEN Val(defs[k].RelatingDefinition).Quantities
          ELSE <<>>) \o EntriesFrom(defs, k + 1)
Entries(element) == EntriesFrom(element.IsDefinedBy, 1)

IsMeasure(q) == q.is_a \in {"IfcQuantityVolume", "IfcQuantityArea", "IfcQuantityLength"}
MeasureDim(q) ==
    CASE q.is_a = "IfcQuantityVolume" -> 3
      [] q.is_a = "IfcQuantityArea" -> 2
      [] q.is_a = "IfcQuantityLength" -> 1
MeasureValue(q) ==
    CASE q.is_a = "IfcQuantityVolume" -> q.VolumeValue
      [] q.is_a = "IfcQuantityArea" -> q.AreaValue
      [] q.is_a = "IfcQuantityLength" -> q.LengthValue
Readable(q) == IsMeasure(q) /\ MeasureValue(q) # NONE

Least(S) == CHOOSE n \in S : \A m \in S : n <= m
Measures(element) ==
    {n \in 1..Len(Entries(element)) : IsMeasure(Entries(element)[n])}
Readables(element) ==
    {n \in 1..Len(Entries(element)) : Readable(Entries(element)[n])}
ResultOfEntry(q) == <<Some(MeasureDim(q)), MeasureValue(q)>>

\* what the representations alone give: the first 2D-ish or 3D-ish one
\* decides, and without one the default holds
RepsOf(element) ==
    IF element.Representation = NONE THEN <<>>
    ELSE Val(element.Representation).Representations
TypedIn(element, S) ==
    {n \in 1..Len(RepsOf(element)) :
        /\ RepsOf(element)[n].RepresentationType # NONE
        /\ Val(RepsOf(element)[n].RepresentationType) \in S}
FirstTypedResult(element) ==
    LET flat == TypedIn(element, TwoDTypes)
        solid == TypedIn(element, ThreeDTypes)
    IN  IF flat \cup solid = {} THEN <<Some(1), Some(1)>>
        ELSE IF Least(flat \cup solid) \in flat THEN <<Some(2), Some(1)>>
        ELSE <<Some(3), Some(1)>>

\* C3 as stated: the first volume, area or length entry in scan order
\* decides the result, with its dimension and its value.
C3_FirstMeasureDecides ==
    (Processed /\ Measures(Current) # {}) =>
        <<dim, value>> = ResultOfEntry(Entries(Current)[Least(Measures(Current))])

\* C3 amended: the first volume, area or length entry whose value can be
\* read decides the result; an entry whose value cannot be read is passed
\* over, so a length entry with a value followed by a volume entry yields
\* the length.
C3_FirstReadableMeasureDecides ==
    (Processed /\ Readables(Current) # {}) =>
        <<dim, value>> = ResultOfEntry(Entries(Current)[Least(Readables(Current))])

\* a length entry followed by a volume entry gave the length
C3_Witness ==
    /\ Processed
    /\ Len(Entries(Current)) = 2
    /\ Entries(Current)[1].is_a = "IfcQuantityLength"
    /\ Entries(Current)[2].is_a = "IfcQuantityVolume"
    /\ Readable(Entries(Current)[1])
    /\ Readable(Entries(Current)[2])
    /\ <<dim, value>> = <<Some(1), Entries(Current)[1].LengthValue>>

\* C4 as stated: without a quantity match, any 2D-ish representation gives
\* (2, 1) wherever it stands; else any 3D-ish one gives (3, 1); else (1, 1).
C4_Any2DBeforeAny3D ==
    (Processed /\ Readables(Current) = {}) =>
        <<dim, value>> =
            IF TypedIn(Current, TwoDTypes) # {} THEN <<Some(2), Some(1)>>
            ELSE IF TypedIn(Current, ThreeDTypes) # {} THEN <<Some(3), Some(1)>>
            ELSE <<Some(1), Some(1)>>

\* C4 amended: without a quantity match, the first representation in list
\* order whose type is 2D-ish or 3D-ish decides: (2, 1) if it is 2D-ish,
\* (3, 1) if it is 3D-ish; without such a representation the result is (1, 1).
C4_FirstTypedRepresentationDecides ==
    (Processed /\ Readables(Current) = {}) =>
        <<dim, value>> = FirstTypedResult(Current)

\* a 3D-ish representation stood before a 2D-ish one and gave (3, 1)
C4_Witness ==
    /\ Processed
    /\ Readables(Current) = {}
    /\ TypedIn(Current, TwoDTypes) # {}
    /\ TypedIn(Current, ThreeDTypes) # {}
    /\ Least(TypedIn(Current, ThreeDTypes)) < Least(TypedIn(Current, TwoDTypes))
    /\ <<dim, value>> = <<Some(3), Some(1)>>

\* the scan met an entry whose value cannot be read before any entry that
\* returns
FailureMet(element) ==
    \E n \in Measures(element) :
        /\ ~Readable(Entries(element)[n])
        /\ \A m \in Readables(element) : n < m

\* C5 as stated: once an entry failed, the quantity path does not match:
\* the result is the one of the representations or the default.
C5_FailureEndsQuantityPath ==
    (Processed /\ FailureMet(Current)) =>
        <<dim, value>> = FirstTypedResult(Current)

\* C5 amended: a failing entry is skipped alone and the scan goes on with
\* the next entry: the first later entry that can be read decides the
\* result, and the representations or the default decide only when no
\* entry of the element can be read.
C5_FailureSkipsOneEntry ==
    (Processed /\ FailureMet(Current)) =>
        <<dim, value>> =
            IF Readables(Current) # {}
            THEN ResultOfEntry(Entries(Current)[Least(Readables(Current))])
            ELSE FirstTypedResult(Current)

\* the first entry failed and the second one decided the result
C5_Witness ==
    /\ Processed
    /\ Len(Entries(Current)) = 2
    /\ IsMeasure(Entries(Current)[1])
    /\ ~Readable(Entries(Current)[1])
    /\ Readable(Entries(Current)[2])
    /\ <<dim, value>> = ResultOfEntry(Entries(Current)[2])
    /\ <<dim, value>> # FirstTypedResult(Current)

\* the elevation a storey is ordered by, an absent one counting as 0
ElevationOf(storey) == IF storey.Elevation = NONE THEN 0 ELSE Val(storey.Elevation)

Orderings(n) ==
    {p \in [1..n -> 1..n] : \A a, b \in 1..n : p[a] = p[b] => a = b}

\* C6: `levels` holds one name per storey, elevations non-increasing from
\* first to last (absent counted as 0), storeys of equal elevation in the
\* order of the model's enumeration.
C6_LevelsDescendingStable ==
    Returned =>
        LET storeys == Val(model).storeys
        IN  /\ Len(Body.levels) = Len(storeys)
            /\ \E p \in Orderings(Len(storeys)) :
                  /\ \A k \in 1..Len(storeys) : Body.levels[k] = storeys[p[k]].Name
                  /\ \A k, l \in 1..Len(storeys) :
                        k < l =>
                            \/ ElevationOf(storeys[p[k]]) > ElevationOf(storeys[p[l]])
                            \/ /\ ElevationOf(storeys[p[k]]) = ElevationOf(storeys[p[l]])
                               /\ p[k] < p[l]

\* a storey without elevation and one at elevation 0 tie and keep their
\* order, below a higher storey enumerated after them or above a lower one
C6_Witness ==
    /\ Returned
    /\ Len(Val(model).storeys) = 2
    /\ Val(model).storeys[1].Elevation = NONE
    /\ Val(model).storeys[2].Elevation = Some(0)
    /\ Val(model).storeys[1].Name = Some("B")
    /\ Val(model).storeys[2].Name = Some("A")
    /\ Body.levels = <<Some("B"), Some("A")>>

\* C7: with the model absent every call fails with status 404 and the
\* configured path in the detail, nothing is computed and the model stays
\* absent; with the model loaded no call fails so and the model stays.
C7_UnavailableForever ==
    [][/\ model' = model
       /\ model = NONE =>
             /\ response' = Some([status_code |-> 404,
                                  detail |-> "IFC file not found: C:/base_structure.ifc"])
             /\ pc' = "idle"
             /\ elements' = <<>>
       /\ model # NONE => (response' = NONE \/ Val(response').status_code = 200)]_vars

\* a call on the absent model has failed
C7_Witness ==
    /\ model = NONE
    /\ response # NONE
    /\ Val(response).status_code = 404

\* the record r agrees with the element e
RecordMatches(r, e) ==
    LET inStorey == e.container # NONE /\ Val(e.container).is_a = "IfcBuildingStorey"
        placed == e.ObjectPlacement # NONE /\ Len(Val(e.ObjectPlacement).Coordinates) = 3
    IN  /\ r.type = e.type
        /\ r.level_name = (IF inStorey THEN Val(e.container).Name ELSE NONE)
        /\ r.level_elevation = (IF inStorey THEN ElevationOf(Val(e.container)) ELSE 0)
        /\ IF placed
           THEN /\ <<r.x, r.y, r.z_relative_to_level>>
                     = <<Some(Val(e.ObjectPlacement).Coordinates[1]),
                         Some(Val(e.ObjectPlacement).Coordinates[2]),
                         Some(Val(e.ObjectPlacement).Coordinates[3])>>
                /\ r.real_world_z
                     = Some(r.level_elevation + Val(e.ObjectPlacement).Coordinates[3])
           ELSE <<r.x, r.y, r.z_relative_to_level, r.real_world_z>>
                   = <<NONE, NONE, NONE, NONE>>

RECURSIVE SumCounts(_, _)
SumCounts(groups, n) ==
    IF n > Len(groups) THEN 0 ELSE groups[n].count + SumCounts(groups, n + 1)

\* every enumerated element has its record, in order, and is counted once
\* in the summary entry of its type, one entry per type
AllIncludedAndCounted ==
    /\ Loaded =>
          /\ Len(elements) = (IF pc = "loop" THEN i - 1
                              ELSE IF Returned THEN Len(Source) ELSE 0)
          /\ \A n \in 1..Len(elements) : RecordMatches(elements[n], Source[n])
          /\ CountsAllRecords
          /\ Keys(type_summary) = TypesSeen
          /\ \A a, b \in 1..Len(type_summary) :
                type_summary[a][1] = type_summary[b][1] => a = b
    /\ Returned =>
          /\ Len(Body.elements) = Len(Source)
          /\ \A n \in 1..Len(Source) : RecordMatches(Body.elements[n], Source[n])
          /\ SumCounts(Body.summary, 1) = Len(Body.elements)
          /\ Len(Body.summary) = Cardinality({Source[n].type : n \in 1..Len(Source)})
          /\ \A n \in 1..Len(Body.summary) :
                Body.summary[n].count
                  = Cardinality({m \in 1..Len(Source) : Source[m].type = Body.summary[n].type})

\* C8 as stated: all of the above, and an element without quantity records
\* has a null value.
C8_MissingFieldsNull ==
    /\ AllIncludedAndCounted
    /\ Loaded => \A n \in 1..Len(elements) :
                    Source[n].IsDefinedBy = <<>> => elements[n].value = NONE
    /\ Returned => \A n \in 1..Len(Source) :
                    Source[n].IsDefinedBy = <<>> => Body.elements[n].value = NONE

\* C8 amended: every element appears once, in order, and is counted in the
\* entry of its type; without placement its coordinates are null, without
\* storey its level name is null and its level elevation 0.0, and without
\* quantity records its value is the placeholder 1, not null.
C8_MissingFieldsNullOrPlaceholder ==
    /\ AllIncludedAndCounted
    /\ Loaded => \A n \in 1..Len(elements) :
                    Source[n].IsDefinedBy = <<>> => elements[n].value = Some(1)
    /\ Returned => \A n \in 1..Len(Source) :
                    Source[n].IsDefinedBy = <<>> => Body.elements[n].value = Some(1)

\* an element without placement, storey and quantity records is in the
\* result and counted
C8_Witness ==
    /\ Returned
    /\ Len(Source) >= 1
    /\ Source[1].ObjectPlacement = NONE
    /\ Source[1].container = NONE
    /\ Source[1].IsDefinedBy = <<>>
    /\ Body.elements[1].x = NONE
    /\ Body.elements[1].level_name = NONE
    /\ Body.summary[1].count = 1

\* the model declares no length unit
NoLengthUnit ==
    \/ Len(Val(model).unitAssignments) = 0
    \/ \A n \in 1..Len(Val(model).unitAssignments[1].Units) :
          Val(model).unitAssignments[1].Units[n].UnitType # Some("LENGTHUNIT")

\* C9: without unit declarations, or without one of type LENGTHUNIT, the
\* unit lookup yields nothing and the unit of every element record and of
\* every summary entry is null.
C9_NoUnitGivesNullUnits ==
    (Loaded /\ NoLengthUnit) =>
        /\ unit = NONE
        /\ \A n \in 1..Len(elements) : elements[n].unit = NONE
        /\ Returned =>
              /\ \A n \in 1..Len(Body.elements) : Body.elements[n].unit = NONE
              /\ \A n \in 1..Len(Body.summary) : Body.summary[n].unit = NONE

\* a model whose only declaration is no length unit was answered
C9_Witness ==
    /\ Returned
    /\ Len(Val(model).unitAssignments) = 1
    /\ Len(Val(model).unitAssignments[1].Units) = 1
    /\ NoLengthUnit
    /\ Len(Body.elements) = 1
    /\ Body.elements[1].unit = NONE
    /\ Body.summary[1].unit = NONE

\* C10: the extractor always yields a dimension 1, 2 or 3 and a value, so
\* no record has a null value and every element with a non-empty level
\* name is in the total of its type and level, placeholders included.
C10_ValueNeverNull ==
    /\ Processed => (dim \in {Some(1), Some(2), Some(3)} /\ value # NONE)
    /\ \A n \in 1..Len(elements) :
          /\ elements[n].value # NONE
          /\ TruthyStr(elements[n].level_name) =>
                LET t == elements[n].type
                    l == Val(elements[n].level_name)
                IN  /\ HasKey(GetOr(totals, t, <<>>), l)
                    /\ Total(t, l)
                         = SumValues({m \in RecordsOf(t) : elements[m].level_name = Some(l)})

\* an element that carries only the placeholder is in the total of its level
C10_Witness ==
    /\ Processed
    /\ Len(elements) = 1
    /\ Current.IsDefinedBy = <<>>
    /\ Current.Representation = NONE
    /\ value = Some(1)
    /\ elements[1].level_name = Some("L1")
    /\ Total(elements[1].type, "L1") = 1

====
